---- MODULE Spec2Model ----
(***************************************************************************)
(* guitarmagic-b                                                           *)
(*                                                                         *)
(*   scripts/migrate-chord-data.js : migrateChordData, the lookup-before-  *)
(*       insert seeding of chord_variations and chord_positions;           *)
(*   contexts/UserContext.js       : UserProvider, the profile and         *)
(*       feature-limit state held by the React context.                    *)
(*                                                                         *)
(* Strings that the code takes apart or puts together (chord names, fret   *)
(* positions, the "name-position" key) are sequences of one-character      *)
(* strings, so that joining with '-' and String.split('-') are computed.   *)
(***************************************************************************)
EXTENDS Integers, Sequences, FiniteSets, TLC

VARIABLES
  \* ---- the remote store, as seen by the migration script
  chordCaptionData,   \* the caption list the script iterates over
  chord_variations,   \* table: set of rows [id, chord_name]
  chord_positions,    \* table: set of rows of chord_positions
  nextId,             \* the store's key generator
  \* ---- one run of migrateChordData
  pc,                 \* where the run is: the await it is suspended at
  idx,                \* position of the running for..of loop
  chordVariations,    \* name -> key mapping built in step 2 (set of pairs)
  console,            \* what the run has logged: set of messages
  thrown,             \* TRUE iff an error escaped migrateChordData
  reported,           \* <<variations.length, positions.length>> printed
  \* ---- observation of the runs (history)
  runs,               \* number of runs started
  abortedRuns,        \* number of runs ended by the catch block
  prevCompleted,      \* the run before the current one ran to completion
  tablesAtStart,      \* both tables when the current run started
  varInserts,         \* inserts into chord_variations issued by this run
  posInserts,         \* inserts into chord_positions issued by this run
  requests,           \* lookups and inserts issued by this run
  lastResult,         \* outcome of the latest lookup or insert
  \* ---- UserProvider (contexts/UserContext.js)
  user,               \* identity from useAuth(): NoUser or a user id
  profile,            \* useState: NoProfile or a user_profiles row
  loading,            \* useState
  dailyLimits,        \* useState: NoLimits or the limits record
  server,             \* user_profiles table: id -> row
  setting_value,      \* admin_settings.feature_gates.setting_value
  limitsFetch,        \* fetchDailyLimits: "pending", or how it finished
  fetches,            \* profile fetches in flight: sequence of user ids
  rpcs,               \* remote procedure calls in flight
  today,              \* the current date
  events,             \* number of identity changes, calls and midnights
  lastEvent           \* the latest step: "data" when it set the profile from
                      \* a response, "failed" when a profile fetch brought no
                      \* row, "ok" when a remote procedure succeeded

migVars == <<chordCaptionData, chord_variations, chord_positions, nextId, pc,
             idx, chordVariations, console, thrown, reported, runs,
             abortedRuns, prevCompleted, tablesAtStart, varInserts,
             posInserts, requests, lastResult>>

userVars == <<user, profile, loading, dailyLimits, server, setting_value,
              limitsFetch, fetches, rpcs, today, events, lastEvent>>

vars == <<migVars, userVars>>

(***************************************************************************)
(* Bounds of the model.                                                    *)
(***************************************************************************)
MaxRuns == 3        \* runs of migrateChordData in one behaviour
MaxPre == 2         \* rows another writer may have left in each table

(***************************************************************************)
(* Strings.                                                                *)
(***************************************************************************)
Hyphen == "-"

\* undefined: what chordVariations[name] yields for a name it does not hold
Undefined == 0

S_Dsharp == <<"D", "#">>
S_C == <<"C">>
S_F7sus4 == <<"F", "7", "s", "u", "s", "4">>
S_D == <<"D">>
S_A == <<"A">>
S_Asharp == <<"A", "#">>
S_Open == <<"O", "p", "e", "n">>
S_Pos1 == <<"P", "o", "s", "1">>
S_Pos2 == <<"P", "o", "s", "2">>
S_Pos6 == <<"P", "o", "s", "6">>
S_Pos3v2 == <<"P", "o", "s", "3", "v", "2">>

Caption(n, f) == [chord_name |-> n, fret_position |-> f]

\* the built-in sample list (start_time / end_time are never read)
SampleCaptionData ==
  << Caption(S_Dsharp, S_Pos2),
     Caption(S_Dsharp, S_Open),
     Caption(S_C, S_Open),
     Caption(S_F7sus4, S_Pos6),
     Caption(S_D, S_Open),
     Caption(S_F7sus4, S_Pos6),
     Caption(S_D, S_Open),
     Caption(S_A, S_Pos1),
     Caption(S_Asharp, S_Pos3v2) >>

\* [...new Set(seq)]: distinct elements in order of first occurrence
RECURSIVE SetOrder(_)
SetOrder(seq) ==
  IF seq = <<>> THEN <<>>
  ELSE LET front == SetOrder(SubSeq(seq, 1, Len(seq) - 1))
           last == seq[Len(seq)]
       IN  IF \E i \in 1..Len(front) : front[i] = last
           THEN front
           ELSE Append(front, last)

\* `${a}-${b}`
Template(a, b) == a \o <<Hyphen>> \o b

\* String.prototype.split(sep) for a one-character separator
RECURSIVE Split(_, _)
Split(s, sep) ==
  IF \A i \in 1..Len(s) : s[i] # sep
  THEN <<s>>
  ELSE LET k == CHOOSE i \in 1..Len(s) :
                  s[i] = sep /\ \A j \in 1..(i - 1) : s[j] # sep
       IN  <<SubSeq(s, 1, k - 1)>> \o Split(SubSeq(s, k + 1, Len(s)), sep)

\* line 27
uniqueChordNames ==
  SetOrder([i \in 1..Len(chordCaptionData) |-> chordCaptionData[i].chord_name])

\* fault: the key leaves the fret position out
uniqueChordPositionsBroken == uniqueChordNames

\* lines 69-71
uniqueChordPositions ==
  SetOrder([i \in 1..Len(chordCaptionData) |->
              Template(chordCaptionData[i].chord_name,
                       chordCaptionData[i].fret_position)])

\* line 76: const [chordName, fretPosition] = chordPosition.split('-')
SplitName(chordPosition) == Split(chordPosition, Hyphen)[1]
SplitFret(chordPosition) ==
  LET parts == Split(chordPosition, Hyphen)
  IN  IF Len(parts) >= 2 THEN parts[2] ELSE <<"undefined">>

\* line 77: chordVariations[chordName]
VariationIdOf(map, chordName) ==
  IF \E e \in map : e[1] = chordName
  THEN (CHOOSE e \in map : e[1] = chordName)[2]
  ELSE Undefined

\* line 65: chordVariations[chordName] = variationId
MapPut(map, chordName, id) ==
  {e \in map : e[1] # chordName} \cup {<<chordName, id>>}


(***************************************************************************)
(* The remote store as the script uses it.                                 *)
(***************************************************************************)

\* .select('id').eq(...).single(): the row when exactly one row matches,
\* otherwise the error PGRST116 (the client reports it for no row and for
\* several rows alike); fail: the request itself fails
Single(rows, fail) ==
  IF fail THEN [data |-> {}, code |-> "REMOTE"]
  ELSE IF Cardinality(rows) = 1 THEN [data |-> rows, code |-> "ok"]
  ELSE [data |-> {}, code |-> "PGRST116"]

\* fault: every lookup error is thrown, "no rows" included
CheckErrorIsThrownBroken(code) == code # "ok"
\* lines 43 and 89: if (checkError && checkError.code !== 'PGRST116') throw
CheckErrorIsThrown(code) == code # "ok" /\ code # "PGRST116"

\* fault: the row found is ignored
ExistsBroken(res) == FALSE

\* lines 48 and 93: if (existingVariation) / if (existingPosition)
Exists(res) == res.data # {}

\* fault: a failed insert is not thrown
CreateErrorIsThrownBroken(fail) == FALSE

\* lines 59 and 113: if (createError) throw createError
CreateErrorIsThrown(fail) == fail

\* lines 55: the row inserted into chord_variations, with its generated key
VariationRow(id, chordName) == [id |-> id, chord_name |-> chordName]

\* fault: the row does not carry the variation's key
PositionRowBroken(id, variationId, chordName, fretPosition) ==
  LET chordPositionFullName == Template(chordName, fretPosition)
  IN  [id |-> id,
       chord_variation_id |-> id,
       chord_name |-> chordName,
       fret_position |-> fretPosition,
       chord_position_full_name |-> chordPositionFullName,
       aws_svg_url_light |->
         <<"https://example.com/svg/">> \o chordPositionFullName
            \o <<"-light.svg">>,
       aws_svg_url_dark |->
         <<"https://example.com/svg/">> \o chordPositionFullName
            \o <<"-dark.svg">>]
\* lines 97-109: the row inserted into chord_positions
PositionRow(id, variationId, chordName, fretPosition) ==
  LET chordPositionFullName == Template(chordName, fretPosition)
  IN  [id |-> id,
       chord_variation_id |-> variationId,
       chord_name |-> chordName,
       fret_position |-> fretPosition,
       chord_position_full_name |-> chordPositionFullName,
       aws_svg_url_light |->
         <<"https://example.com/svg/">> \o chordPositionFullName
            \o <<"-light.svg">>,
       aws_svg_url_dark |->
         <<"https://example.com/svg/">> \o chordPositionFullName
            \o <<"-dark.svg">>]

\* where the run continues after the chord name at position i (lines 33, 75)
AfterVariation(i) ==
  IF i < Len(uniqueChordNames) THEN [pc |-> "checkVariation", idx |-> i + 1]
  ELSE IF Len(uniqueChordPositions) > 0
       THEN [pc |-> "checkPosition", idx |-> 1]
       ELSE [pc |-> "verify", idx |-> 0]

\* where the run continues after the chord position at position i (line 75)
AfterPosition(i) ==
  IF i < Len(uniqueChordPositions)
  THEN [pc |-> "checkPosition", idx |-> i + 1]
  ELSE [pc |-> "verify", idx |-> 0]

\* lines 142-144: the catch block logs the error; nothing is rethrown
Catch == [pc |-> "failed", console |-> {"Migration failed"}, thrown |-> FALSE]

(***************************************************************************)
(* UserProvider: values of the state.                                      *)
(***************************************************************************)
NoUser == "none"                 \* user is null (no identity)
Null == "null"                   \* a null / undefined string field
NoDate == <<0, 0>>               \* last_search_reset is null
NoProfile == [id |-> NoUser]     \* profile is null
NoLimits == [none |-> TRUE]      \* dailyLimits is null

\* UserProvider is not mounted: the state the migration runs leave alone
UserUnmounted ==
  /\ user = NoUser
  /\ profile = NoProfile
  /\ loading = FALSE
  /\ dailyLimits = NoLimits
  /\ server = <<>>
  /\ setting_value = <<>>
  /\ limitsFetch = "unmounted"
  /\ fetches = <<>>
  /\ rpcs = <<>>
  /\ today = 0
  /\ events = 0
  /\ lastEvent = ""

(***************************************************************************)
(* migrateChordData (scripts/migrate-chord-data.js), one action per await. *)
(***************************************************************************)
Tables == [variations |-> chord_variations, positions |-> chord_positions]

RunLocal(r) ==
  /\ pc' = r.pc
  /\ idx' = r.idx

Abort ==
  /\ pc' = Catch.pc
  /\ console' = console \cup Catch.console
  /\ thrown' = Catch.thrown
  /\ abortedRuns' = abortedRuns + 1
  /\ UNCHANGED idx

\* line 22-31: a run starts (the script is executed)
migrateChordData ==
  /\ pc \in {"idle", "done", "failed"}
  /\ runs < MaxRuns
  /\ runs' = runs + 1
  /\ prevCompleted' = (pc = "done")
  /\ tablesAtStart' = Tables
  /\ chordVariations' = {}
  /\ console' = {"Starting chord data migration"}
  /\ thrown' = FALSE
  /\ reported' = <<>>
  /\ varInserts' = 0
  /\ posInserts' = 0
  /\ requests' = 0
  /\ lastResult' = "none"
  /\ IF Len(uniqueChordNames) > 0
     THEN RunLocal([pc |-> "checkVariation", idx |-> 1])
     ELSE RunLocal(AfterVariation(0))
  /\ UNCHANGED <<chordCaptionData, chord_variations, chord_positions, nextId,
                 abortedRuns>>
  /\ UNCHANGED userVars

\* lines 37-50, 65: look the chord name up; reuse the key of a row found
CheckVariation(fail) ==
  /\ pc = "checkVariation"
  /\ LET chordName == uniqueChordNames[idx]
         res == Single({r \in chord_variations : r.chord_name = chordName},
                       fail)
     IN  /\ requests' = requests + 1
         /\ lastResult' = res.code
         /\ IF CheckErrorIsThrown(res.code)
            THEN Abort /\ UNCHANGED chordVariations
            ELSE IF Exists(res)
            THEN /\ chordVariations' =
                      MapPut(chordVariations, chordName,
                             (CHOOSE r \in res.data : TRUE).id)
                 /\ RunLocal(AfterVariation(idx))
                 /\ UNCHANGED <<console, thrown, abortedRuns>>
            ELSE /\ pc' = "createVariation"
                 /\ UNCHANGED <<idx, chordVariations, console, thrown,
                                abortedRuns>>
  /\ UNCHANGED <<chordCaptionData, chord_variations, chord_positions, nextId,
                 reported, runs, prevCompleted, tablesAtStart, varInserts,
                 posInserts>>
  /\ UNCHANGED userVars

\* lines 53-65: insert the variation and keep its generated key (a failed
\* insert that is not thrown leaves no row and no key)
CreateVariation(fail) ==
  /\ pc = "createVariation"
  /\ LET chordName == uniqueChordNames[idx]
     IN  /\ requests' = requests + 1
         /\ varInserts' = varInserts + 1
         /\ lastResult' = IF fail THEN "REMOTE" ELSE "created"
         /\ IF CreateErrorIsThrown(fail)
            THEN /\ Abort
                 /\ UNCHANGED <<chord_variations, nextId, chordVariations>>
            ELSE /\ chord_variations' =
                      IF fail THEN chord_variations
                      ELSE chord_variations
                             \cup {VariationRow(nextId, chordName)}
                 /\ nextId' = IF fail THEN nextId ELSE nextId + 1
                 /\ chordVariations' =
                      MapPut(chordVariations, chordName,
                             IF fail THEN Undefined ELSE nextId)
                 /\ RunLocal(AfterVariation(idx))
                 /\ UNCHANGED <<console, thrown, abortedRuns>>
  /\ UNCHANGED <<chordCaptionData, chord_positions, reported, runs,
                 prevCompleted, tablesAtStart, posInserts>>
  /\ UNCHANGED userVars

\* lines 75-94: look the (chord name, fret position) pair up
CheckPosition(fail) ==
  /\ pc = "checkPosition"
  /\ LET chordPosition == uniqueChordPositions[idx]
         chordName == SplitName(chordPosition)
         fretPosition == SplitFret(chordPosition)
         res == Single({r \in chord_positions :
                          /\ r.chord_name = chordName
                          /\ r.fret_position = fretPosition}, fail)
     IN  /\ requests' = requests + 1
         /\ lastResult' = res.code
         /\ IF CheckErrorIsThrown(res.code)
            THEN Abort
            ELSE IF Exists(res)
            THEN /\ RunLocal(AfterPosition(idx))
                 /\ UNCHANGED <<console, thrown, abortedRuns>>
            ELSE /\ pc' = "createPosition"
                 /\ UNCHANGED <<idx, console, thrown, abortedRuns>>
  /\ UNCHANGED <<chordCaptionData, chord_variations, chord_positions, nextId,
                 chordVariations, reported, runs, prevCompleted,
                 tablesAtStart, varInserts, posInserts>>
  /\ UNCHANGED userVars

\* lines 96-116: insert the position row (a failed insert that is not
\* thrown leaves no row)
CreatePosition(fail) ==
  /\ pc = "createPosition"
  /\ LET chordPosition == uniqueChordPositions[idx]
         chordName == SplitName(chordPosition)
         fretPosition == SplitFret(chordPosition)
         variationId == VariationIdOf(chordVariations, chordName)
     IN  /\ requests' = requests + 1
         /\ posInserts' = posInserts + 1
         /\ lastResult' = IF fail THEN "REMOTE" ELSE "created"
         /\ IF CreateErrorIsThrown(fail)
            THEN /\ Abort
                 /\ UNCHANGED <<chord_positions, nextId>>
            ELSE /\ chord_positions' =
                      IF fail THEN chord_positions
                      ELSE chord_positions
                             \cup {PositionRow(nextId, variationId,
                                               chordName, fretPosition)}
                 /\ nextId' = IF fail THEN nextId ELSE nextId + 1
                 /\ RunLocal(AfterPosition(idx))
                 /\ UNCHANGED <<console, thrown, abortedRuns>>
  /\ UNCHANGED <<chordCaptionData, chord_variations, chordVariations,
                 reported, runs, prevCompleted, tablesAtStart, varInserts>>
  /\ UNCHANGED userVars

\* lines 119-140: log completion, read both tables back, print the counts;
\* a read that fails yields data = null and .length throws into the catch
VerifyResults(failVariations, failPositions) ==
  /\ pc = "verify"
  /\ IF failVariations \/ failPositions
     THEN /\ pc' = Catch.pc
          /\ console' = console \cup {"Migration completed successfully"}
                                \cup Catch.console
          /\ thrown' = Catch.thrown
          /\ abortedRuns' = abortedRuns + 1
          /\ UNCHANGED reported
     ELSE /\ pc' = "done"
          /\ console' = console \cup {"Migration completed successfully",
                                      "Final Results"}
          /\ reported' = <<Cardinality(chord_variations),
                           Cardinality(chord_positions)>>
          /\ UNCHANGED <<thrown, abortedRuns>>
  /\ UNCHANGED <<chordCaptionData, chord_variations, chord_positions, nextId,
                 idx, chordVariations, runs, prevCompleted, tablesAtStart,
                 varInserts, posInserts, requests, lastResult>>
  /\ UNCHANGED userVars

NextMigrate ==
  \/ migrateChordData
  \/ \E fail \in BOOLEAN : CheckVariation(fail)
  \/ \E fail \in BOOLEAN : CreateVariation(fail)
  \/ \E fail \in BOOLEAN : CheckPosition(fail)
  \/ \E fail \in BOOLEAN : CreatePosition(fail)
  \/ \E fv \in BOOLEAN, fp \in BOOLEAN : VerifyResults(fv, fp)

RunIdle ==
  /\ pc = "idle"
  /\ idx = 0
  /\ chordVariations = {}
  /\ console = {}
  /\ thrown = FALSE
  /\ reported = <<>>
  /\ runs = 0
  /\ abortedRuns = 0
  /\ prevCompleted = FALSE
  /\ tablesAtStart = Tables
  /\ varInserts = 0
  /\ posInserts = 0
  /\ requests = 0
  /\ lastResult = "none"

\* the script is run against an empty store
Init ==
  /\ chordCaptionData = SampleCaptionData
  /\ chord_variations = {}
  /\ chord_positions = {}
  /\ nextId = 1
  /\ RunIdle
  /\ UserUnmounted

Spec == Init /\ [][NextMigrate]_vars

(***************************************************************************)
(* The script is run against a store that already holds rows: up to MaxPre *)
(* variations and up to MaxPre positions of those variations, one row per  *)
(* name and per pair (the uniqueness the tables declare).                  *)
(***************************************************************************)
IndexOf(seq, x) == CHOOSE i \in 1..Len(seq) : seq[i] = x

PreVariations(names) ==
  {VariationRow(IndexOf(uniqueChordNames, n), n) : n \in names}

PrePositions(keys) ==
  {PositionRow(10 + IndexOf(uniqueChordPositions, k),
               IndexOf(uniqueChordNames, SplitName(k)),
               SplitName(k), SplitFret(k)) : k \in keys}

Range(seq) == {seq[i] : i \in 1..Len(seq)}

InitAnyStore ==
  /\ chordCaptionData = SampleCaptionData
  /\ \E names \in SUBSET Range(uniqueChordNames) :
     \E keys \in SUBSET Range(uniqueChordPositions) :
       /\ Cardinality(names) <= MaxPre
       /\ Cardinality(keys) <= MaxPre
       /\ \A k \in keys : SplitName(k) \in names
       /\ chord_variations = PreVariations(names)
       /\ chord_positions = PrePositions(keys)
  /\ nextId = 20
  /\ RunIdle
  /\ UserUnmounted

SpecAnyStore == InitAnyStore /\ [][NextMigrate]_vars

(***************************************************************************)
(* Claims about migrateChordData.                                          *)
(***************************************************************************)
NamesOf(rows) == {r.chord_name : r \in rows}
PairsOf(rows) == {<<r.chord_name, r.fret_position>> : r \in rows}
CaptionNames == {chordCaptionData[i].chord_name : i \in DOMAIN chordCaptionData}
CaptionPairs ==
  {<<chordCaptionData[i].chord_name, chordCaptionData[i].fret_position>> :
     i \in DOMAIN chordCaptionData}

\* C1: whatever rows the store held, a run that directly follows a completed
\* run issues no insert into either table and leaves both tables exactly as
\* the completed run left them.
C1_SecondRunInsertsNothing ==
  (prevCompleted /\ pc # "idle") =>
     /\ varInserts = 0
     /\ posInserts = 0
     /\ Tables = tablesAtStart

C1_Witness ==
  /\ prevCompleted
  /\ pc = "done"
  /\ requests = Len(uniqueChordNames) + Len(uniqueChordPositions)
  /\ chord_variations # {}

\* C2: from an empty store, through completed and aborted runs alike, there
\* is at most one variation row per chord_name, at most one position row per
\* (chord_name, fret_position), every position row carries the key of the
\* variation row of its chord_name, and once the loops of a run are through
\* every chord_name of the input has exactly one variation row.
C2_OneRowPerNameAndPair ==
  /\ \A v, w \in chord_variations : v.chord_name = w.chord_name => v = w
  /\ \A p, q \in chord_positions :
       (p.chord_name = q.chord_name /\ p.fret_position = q.fret_position)
          => p = q
  /\ \A p \in chord_positions :
       \E v \in chord_variations :
          v.chord_name = p.chord_name /\ v.id = p.chord_variation_id
  /\ pc \in {"verify", "done"} =>
       \A n \in CaptionNames :
          Cardinality({v \in chord_variations : v.chord_name = n}) = 1

C2_Witness ==
  /\ pc = "done"
  /\ abortedRuns >= 1
  /\ Cardinality(chord_positions) = 7
  /\ \E p, q \in chord_positions :
       p # q /\ p.chord_variation_id = q.chord_variation_id

\* C3: the first run on the empty store with the 9 sample captions, meeting
\* no remote error, issues 6 variation inserts and 7 position inserts, and
\* the verification read prints 6 and 7.
C3_SampleCounts ==
  (runs = 1 /\ pc = "done") =>
     /\ Len(chordCaptionData) = 9
     /\ varInserts = 6
     /\ posInserts = 7
     /\ reported = <<6, 7>>

C3_Witness ==
  /\ runs = 1
  /\ pc = "done"
  /\ tablesAtStart = [variations |-> {}, positions |-> {}]
  /\ abortedRuns = 0

\* C4: a lookup answered "no rows" (PGRST116) does not abort and the run goes
\* on to the insert; a lookup or insert that fails otherwise ends the run in
\* the catch block, which logs and does not rethrow; a run that has aborted
\* issues no further request; no step removes a row.
C4_Step ==
  /\ (requests' = requests + 1 /\ lastResult' = "PGRST116")
        => /\ pc' \in {"createVariation", "createPosition"}
           /\ abortedRuns' = abortedRuns
  /\ (requests' = requests + 1 /\ lastResult' = "REMOTE")
        => /\ pc' = "failed"
           /\ "Migration failed" \in console'
           /\ ~thrown'
           /\ Tables' = Tables
  /\ pc \in {"createVariation", "createPosition"}
        => (varInserts' + posInserts' = varInserts + posInserts + 1)
  /\ (pc = "failed" /\ runs' = runs)
        => (requests' = requests /\ Tables' = Tables)
  /\ chord_variations \subseteq chord_variations'
  /\ chord_positions \subseteq chord_positions'
  /\ ~thrown'

C4_ErrorsAbortExceptNoRows == [][C4_Step]_vars

C4_Witness ==
  /\ pc = "failed"
  /\ lastResult = "REMOTE"
  /\ Tables # tablesAtStart
  /\ requests < Len(uniqueChordNames) + Len(uniqueChordPositions)

\* C5: from the empty store, after any number of aborted runs, a run that
\* gets through both loops leaves exactly the chord names and the
\* (chord_name, fret_position) pairs of the caption list in the tables, one
\* row each - what a first, error-free run leaves.
C5_RerunAfterFailure ==
  pc \in {"verify", "done"} =>
     /\ NamesOf(chord_variations) = CaptionNames
     /\ PairsOf(chord_positions) = CaptionPairs
     /\ Cardinality(chord_variations) = Cardinality(CaptionNames)
     /\ Cardinality(chord_positions) = Cardinality(CaptionPairs)

C5_Witness ==
  /\ pc = "done"
  /\ abortedRuns >= 2
  /\ varInserts + posInserts > 0
  /\ Tables # tablesAtStart

(***************************************************************************)
(* UserProvider (contexts/UserContext.js).                                 *)
(*                                                                         *)
(* A step is one event of the single-threaded runtime: an identity change, *)
(* a call of an exposed action, or the arrival of a response, together     *)
(* with the state updates, the render and the effects that follow it.      *)
(***************************************************************************)
MaxEvents == 3       \* identity changes, consumer calls and midnights in
                     \* one behaviour (responses are not counted)

Users == {"A", "B"}

Missing == [missing |-> TRUE]    \* a field the remote value does not have
NoValue == [null |-> TRUE]       \* setting_value is null

\* ---- fetchDailyLimits: the literal defaults of lines 37-39
DefaultSearchLimits == [freebird |-> 8, roadie |-> 24, hero |-> 100]
DefaultWatchTimeLimits == [freebird |-> 60, roadie |-> 180, hero |-> 480]
DefaultFavoriteLimits == [freebird |-> 0, roadie |-> 12, hero |-> -1]

\* a || b for an object-valued a
OrDefault(a, b) == IF a = Missing THEN b ELSE a

\* fault: one missing category makes all three fall back together
ResolveLimitsBroken(sv) ==
  IF \/ sv.daily_search_limits = Missing
     \/ sv.daily_watch_time_limits = Missing
     \/ sv.favorite_limits = Missing
  THEN [daily_search_limits |-> DefaultSearchLimits,
        daily_watch_time_limits |-> DefaultWatchTimeLimits,
        favorite_limits |-> DefaultFavoriteLimits]
  ELSE sv

\* lines 36-40: each category taken from the remote value or its default
ResolveLimits(sv) ==
  [daily_search_limits |->
     OrDefault(sv.daily_search_limits, DefaultSearchLimits),
   daily_watch_time_limits |->
     OrDefault(sv.daily_watch_time_limits, DefaultWatchTimeLimits),
   favorite_limits |->
     OrDefault(sv.favorite_limits, DefaultFavoriteLimits)]

\* fault: the fallback of the catch block has a wrong number
CatchLimitsBroken ==
  [daily_search_limits |-> [freebird |-> 8, roadie |-> 24, hero |-> 100],
   daily_watch_time_limits |-> [freebird |-> 60, roadie |-> 180, hero |-> 480],
   favorite_limits |-> [freebird |-> 0, roadie |-> 12, hero |-> 0]]

\* lines 45-49: the fallback of the catch block
CatchLimits ==
  [daily_search_limits |-> [freebird |-> 8, roadie |-> 24, hero |-> 100],
   daily_watch_time_limits |-> [freebird |-> 60, roadie |-> 180, hero |-> 480],
   favorite_limits |-> [freebird |-> 0, roadie |-> 12, hero |-> -1]]

\* lines 26-50: the value dailyLimits holds when fetchDailyLimits finishes;
\* outcome "error": the query returns an error (line 33 throws it),
\* "throw": the query itself throws, "row": data is the feature_gates row
DailyLimitsAfter(outcome, sv, held) ==
  IF outcome \in {"error", "throw"} THEN CatchLimits
  ELSE IF sv # NoValue THEN ResolveLimits(sv)
  ELSE held

\* ---- profile?.field
Tier == IF profile = NoProfile THEN Null ELSE profile.subscription_tier
Status == IF profile = NoProfile THEN Null ELSE profile.subscription_status
LastSearchReset(p) == IF p = NoProfile THEN NoDate ELSE p.last_search_reset

\* profile?.daily_searches_used || 0
Used == IF profile = NoProfile THEN 0 ELSE profile.daily_searches_used

\* map?.[tier] || dflt
EntryOr(map, tier, dflt) ==
  IF tier \in DOMAIN map /\ map[tier] # 0 THEN map[tier] ELSE dflt

\* lines 113-126
getDailySearchLimit ==
  IF dailyLimits = NoLimits \/ Tier = Null THEN 0
  ELSE EntryOr(dailyLimits.daily_search_limits, Tier, 0)

\* fault: the limit itself still allows a search
CanSearchGivenBroken(limit, used) == IF limit = -1 THEN TRUE ELSE used <= limit

\* line 131: limit === -1 ? true : used < limit
CanSearchGiven(limit, used) == IF limit = -1 THEN TRUE ELSE used < limit

\* lines 128-142
checkDailySearchLimit == CanSearchGiven(getDailySearchLimit, Used)

\* lines 145-148
getDailyWatchTimeLimit ==
  IF dailyLimits = NoLimits \/ Tier = Null THEN 60
  ELSE EntryOr(dailyLimits.daily_watch_time_limits, Tier, 60)

\* lines 151-154
getFavoriteLimit ==
  IF dailyLimits = NoLimits \/ Tier = Null THEN 0
  ELSE EntryOr(dailyLimits.favorite_limits, Tier, 0)

\* lines 207-219: the computed values of the context
isPremium == Tier = "premium"
hasPlanAccess == Tier # Null /\ Status = "active"
planType == IF Tier # Null THEN Tier ELSE "freebird"
planStatus == Status
canSearch == Tier # "freebird" /\ Status = "active"
dailySearchesUsed == Used
searchLimit == getDailySearchLimit

\* ---- dates: a timestamp is <<day, time of day>>
\* new Date(ts).toDateString(): the date without the time of day
DateString(ts) == ts[1]

\* new Date(): the current time, late in the day
Now == <<today, 1>>

\* ---- the user_profiles table and the remote procedures
Row(id, tier, status, used, reset) ==
  [id |-> id, subscription_tier |-> tier, subscription_status |-> status,
   daily_searches_used |-> used, last_search_reset |-> reset]

\* remote procedure increment_search_usage(user_id_param)
increment_search_usage(row) ==
  [row EXCEPT !.daily_searches_used = @ + 1]

\* remote procedure reset_daily_searches(), for the caller's identity: the
\* counter restarts and last_search_reset is the time of the reset, earlier
\* on the current date than any later new Date()
reset_daily_searches(row) ==
  [row EXCEPT !.daily_searches_used = 0, !.last_search_reset = <<today, 0>>]

\* ---- requests in flight: bags
RECURSIVE SumOver(_, _)
SumOver(bag, keys) ==
  IF keys = {} THEN 0
  ELSE LET k == CHOOSE k \in keys : TRUE
       IN  bag[k] + SumOver(bag, keys \ {k})

InFlight(bag) == SumOver(bag, DOMAIN bag)
BagAdd(bag, k) == [bag EXCEPT ![k] = @ + 1]
BagRemove(bag, k) == [bag EXCEPT ![k] = @ - 1]

\* a call of supabase.rpc: the procedure, the identity of the session, and
\* profile?.id as the calling closure holds it (read by refreshProfile)
RpcKeys ==
  [proc : {"increment_search_usage", "reset_daily_searches"},
   user : Users,
   profileId : Users \cup {NoUser}]

\* lines 79-88: fetchUserProfile(userId) up to its await
fetchUserProfile(userId) ==
  /\ loading' = TRUE
  /\ fetches' = BagAdd(fetches, userId)

\* fault: the guard looks at the held profile instead of the identity
resetDailySearchCountBroken(u, p) ==
  IF p = NoProfile
  THEN UNCHANGED rpcs
  ELSE rpcs' = BagAdd(rpcs, [proc |-> "reset_daily_searches",
                             user |-> p.id, profileId |-> p.id])

\* lines 174-178: resetDailySearchCount() up to its await, called from a
\* render that holds identity u and profile p
resetDailySearchCount(u, p) ==
  IF u = NoUser
  THEN UNCHANGED rpcs
  ELSE rpcs' = BagAdd(rpcs, [proc |-> "reset_daily_searches",
                             user |-> u, profileId |-> p.id])

\* lines 69-75: the body of the daily search reset effect
ResetIsDue(p) ==
  /\ LastSearchReset(p) # NoDate
  /\ DateString(LastSearchReset(p)) # DateString(Now)

\* profile?.last_search_reset as the dependency array compares it:
\* undefined for no profile, null or the timestamp otherwise
Dependency(p) == IF p = NoProfile THEN <<-1, -1>> ELSE p.last_search_reset

\* fault: the effect has no dependency array
EffectRunsBroken(old, new) == TRUE

\* line 77: the effect runs when its dependency has changed
EffectRuns(old, new) == Dependency(old) # Dependency(new)

\* lines 68-77: the render that follows profile becoming p while the
\* identity is u, and its effects
DailySearchResetEffect(u, p) ==
  IF EffectRuns(profile, p) /\ ResetIsDue(p)
  THEN resetDailySearchCount(u, p)
  ELSE UNCHANGED rpcs

\* lines 54-60: the identity changes (u may be the same identity in a new
\* user object); the effect fetches its profile or clears the held one
AuthChange(u) ==
  /\ limitsFetch # "unmounted"
  /\ u # user \/ u # NoUser
  /\ events < MaxEvents
  /\ events' = events + 1
  /\ user' = u
  /\ IF u # NoUser
     THEN /\ fetchUserProfile(u)
          /\ UNCHANGED <<profile, rpcs>>
     ELSE /\ profile' = NoProfile
          /\ DailySearchResetEffect(u, NoProfile)
          /\ UNCHANGED <<loading, fetches>>
  /\ lastEvent' = ""
  /\ UNCHANGED <<dailyLimits, server, setting_value, limitsFetch, today>>
  /\ UNCHANGED migVars

\* fault: a response for another identity than the current one is discarded
ProfileAfterFenced(outcome, data, held) ==
  IF outcome = "data" /\ data.id = user THEN data ELSE held

\* fault: a response that brings no row clears the held profile
ProfileAfterBroken(outcome, data, held) ==
  IF outcome = "data" THEN data ELSE NoProfile

\* lines 90-98: the profile held after a response: the row when the response
\* carries one (whatever the identity is by then), the held profile otherwise
ProfileAfter(outcome, data, held) ==
  IF outcome = "data" THEN data ELSE held

\* lines 84-103: the response of a profile fetch for userId arrives
ProfileResponse(userId, outcome) ==
  /\ fetches[userId] > 0
  /\ fetches' = BagRemove(fetches, userId)
  /\ loading' = FALSE
  /\ LET p == ProfileAfter(outcome, server[userId], profile)
     IN  /\ profile' = p
         /\ IF p # profile
            THEN DailySearchResetEffect(user, p)
            ELSE UNCHANGED rpcs
  /\ lastEvent' = IF outcome = "data" THEN "data" ELSE "failed"
  /\ UNCHANGED <<user, dailyLimits, server, setting_value, limitsFetch,
                 today, events>>
  /\ UNCHANGED migVars

\* lines 106-110: refreshProfile() of the render that holds profile id pid
refreshProfile(pid) ==
  IF pid # NoUser
  THEN fetchUserProfile(pid)
  ELSE UNCHANGED <<loading, fetches>>

\* a consumer calls refreshProfile
RefreshProfileCall ==
  /\ limitsFetch # "unmounted"
  /\ events < MaxEvents
  /\ events' = IF profile = NoProfile THEN events ELSE events + 1
  /\ refreshProfile(profile.id)
  /\ lastEvent' = ""
  /\ UNCHANGED <<user, profile, dailyLimits, server, setting_value,
                 limitsFetch, rpcs, today>>
  /\ UNCHANGED migVars

\* lines 156-162: a consumer calls incrementDailySearchCount
IncrementCall ==
  /\ limitsFetch # "unmounted"
  /\ events < MaxEvents
  /\ IF user = NoUser
     THEN UNCHANGED <<rpcs, events>>
     ELSE /\ events' = events + 1
          /\ rpcs' = BagAdd(rpcs, [proc |-> "increment_search_usage",
                                   user |-> user, profileId |-> profile.id])
  /\ lastEvent' = ""
  /\ UNCHANGED <<user, profile, loading, dailyLimits, server, setting_value,
                 limitsFetch, fetches, today>>
  /\ UNCHANGED migVars

\* lines 174-178: a consumer calls resetDailySearchCount
ResetCall ==
  /\ limitsFetch # "unmounted"
  /\ events < MaxEvents
  /\ events' = IF user = NoUser THEN events ELSE events + 1
  /\ resetDailySearchCount(user, profile)
  /\ lastEvent' = ""
  /\ UNCHANGED <<user, profile, loading, dailyLimits, server, setting_value,
                 limitsFetch, fetches, today>>
  /\ UNCHANGED migVars

\* lines 160-171 and 178-186: the response of a remote procedure arrives;
\* on success the procedure has run and the profile is refreshed
RpcResponse(k, outcome) ==
  /\ rpcs[k] > 0
  /\ rpcs' = BagRemove(rpcs, k)
  /\ IF outcome = "ok"
     THEN /\ server' =
               [server EXCEPT ![k.user] =
                  IF k.proc = "reset_daily_searches"
                  THEN reset_daily_searches(@)
                  ELSE increment_search_usage(@)]
          /\ refreshProfile(k.profileId)
     ELSE UNCHANGED <<server, loading, fetches>>
  /\ lastEvent' = IF outcome = "ok" THEN "ok" ELSE ""
  /\ UNCHANGED <<user, profile, dailyLimits, setting_value, limitsFetch,
                 today, events>>
  /\ UNCHANGED migVars

\* lines 25-51: the response of the feature_gates read arrives
DailyLimitsResponse(outcome) ==
  /\ limitsFetch = "pending"
  /\ limitsFetch' = outcome
  /\ dailyLimits' = DailyLimitsAfter(outcome, setting_value, dailyLimits)
  /\ lastEvent' = ""
  /\ UNCHANGED <<user, profile, loading, server, setting_value, fetches,
                 rpcs, today, events>>
  /\ UNCHANGED migVars

\* midnight passes
Tick ==
  /\ limitsFetch # "unmounted"
  /\ events < MaxEvents
  /\ events' = events + 1
  /\ today' = today + 1
  /\ lastEvent' = ""
  /\ UNCHANGED <<user, profile, loading, dailyLimits, server, setting_value,
                 limitsFetch, fetches, rpcs>>
  /\ UNCHANGED migVars

NextUser ==
  \/ \E u \in Users \cup {NoUser} : AuthChange(u)
  \/ \E u \in Users, outcome \in {"data", "error", "no data", "throw"} :
       ProfileResponse(u, outcome)
  \/ RefreshProfileCall
  \/ IncrementCall
  \/ ResetCall
  \/ \E k \in RpcKeys, outcome \in {"ok", "error", "throw"} :
       RpcResponse(k, outcome)
  \/ \E outcome \in {"row", "error", "throw"} : DailyLimitsResponse(outcome)
  \/ Tick

(***************************************************************************)
(* UserProvider after it has mounted without an identity: the mount        *)
(* effects have run, the feature_gates read is in flight.  The remote      *)
(* rows are drawn from small sets.                                         *)
(***************************************************************************)
CustomSearchLimits == [freebird |-> 1, roadie |-> 5, hero |-> -1]
CustomWatchTimeLimits == [freebird |-> 30, roadie |-> 90, hero |-> 240]
CustomFavoriteLimits == [freebird |-> 2, roadie |-> 20, hero |-> 50]

SettingValue(s, w, f) ==
  [daily_search_limits |-> s, daily_watch_time_limits |-> w,
   favorite_limits |-> f]

Mounted ==
  /\ user = NoUser
  /\ profile = NoProfile
  /\ loading = FALSE
  /\ dailyLimits = NoLimits
  /\ limitsFetch = "pending"
  /\ fetches = [u \in Users |-> 0]
  /\ rpcs = [k \in RpcKeys |-> 0]
  /\ today = 2
  /\ events = 0
  /\ lastEvent = ""

\* the migration script is not loaded
StoreUntouched ==
  /\ chordCaptionData = <<>>
  /\ chord_variations = {}
  /\ chord_positions = {}
  /\ nextId = 1
  /\ RunIdle

InitUser ==
  /\ Mounted
  /\ StoreUntouched
  /\ setting_value \in
       {NoValue,
        SettingValue(CustomSearchLimits, CustomWatchTimeLimits,
                     CustomFavoriteLimits)}
  /\ \E reset \in {NoDate, <<1, 0>>},
        plan \in {<<"hero", "active">>, <<Null, "active">>} :
       server = [u \in Users |->
                   IF u = "A"
                   THEN Row("A", "freebird", "active", 7, reset)
                   ELSE Row("B", plan[1], plan[2], 0, <<1, 0>>)]

SpecUser == InitUser /\ [][NextUser]_vars

(***************************************************************************)
(* Claims about UserProvider.                                              *)
(***************************************************************************)
DocumentedDefaults ==
  [daily_search_limits |-> [freebird |-> 8, roadie |-> 24, hero |-> 100],
   daily_watch_time_limits |-> [freebird |-> 60, roadie |-> 180, hero |-> 480],
   favorite_limits |-> [freebird |-> 0, roadie |-> 12, hero |-> -1]]

\* C6: once fetchDailyLimits has finished - with an error, with a row that
\* has a setting_value, or with a row whose setting_value is null -
\* dailyLimits is not null.
C6_LimitsNeverNull ==
  limitsFetch \in {"row", "error", "throw"} => dailyLimits # NoLimits

\* C7: when the settings fetch returns an error or throws, dailyLimits is
\* exactly the documented defaults, all three categories together.
C7_FetchFailureGivesDefaults ==
  limitsFetch \in {"error", "throw"} => dailyLimits = DocumentedDefaults

C7_Witness ==
  /\ limitsFetch = "error"
  /\ setting_value # NoValue
  /\ dailyLimits.favorite_limits["hero"] = -1
  /\ profile # NoProfile

\* C8: the resolved search limit is the daily_search_limits entry of the
\* held profile's tier, and 0 when the profile, its tier or dailyLimits is
\* unknown; checkDailySearchLimit is true exactly when that limit is -1 or
\* daily_searches_used is below it, so it is false whenever the limit is
\* >= 0 and used >= limit (limit 8: used 7 true, used 8 false).
C8_Limit ==
  IF profile = NoProfile THEN 0
  ELSE IF profile.subscription_tier = Null THEN 0
  ELSE IF dailyLimits = NoLimits THEN 0
  ELSE IF profile.subscription_tier \in DOMAIN dailyLimits.daily_search_limits
  THEN dailyLimits.daily_search_limits[profile.subscription_tier]
  ELSE 0

C8_Used == IF profile = NoProfile THEN 0 ELSE profile.daily_searches_used

C8_SearchLimitCheck ==
  /\ getDailySearchLimit = C8_Limit
  /\ searchLimit = C8_Limit
  /\ checkDailySearchLimit <=> (C8_Limit = -1 \/ C8_Used < C8_Limit)
  /\ (C8_Limit >= 0 /\ C8_Used >= C8_Limit) => ~checkDailySearchLimit
  /\ C8_Limit = -1 => checkDailySearchLimit
  /\ (C8_Limit = 8 /\ C8_Used = 7) => checkDailySearchLimit
  /\ (C8_Limit = 8 /\ C8_Used = 8) => ~checkDailySearchLimit

C8_Witness ==
  /\ profile # NoProfile
  /\ profile.subscription_tier = "freebird"
  /\ profile.daily_searches_used = 8
  /\ getDailySearchLimit = 8
  /\ ~checkDailySearchLimit

\* ---- what a step did, read off the state change
\* the step invoked reset_daily_searches n times
ResetInvocations(n) ==
  LET resets == {k \in RpcKeys : k.proc = "reset_daily_searches"}
      added == [k \in resets |->
                  IF rpcs'[k] > rpcs[k] THEN rpcs'[k] - rpcs[k] ELSE 0]
  IN  SumOver(added, resets) = n

\* the step started a fetch of the profile of id
FetchStarted(id) == fetches' = BagAdd(fetches, id)

\* the step is the successful response of call k
Succeeded(k) ==
  /\ lastEvent' = "ok"
  /\ rpcs[k] > 0
  /\ rpcs' = BagRemove(rpcs, k)

\* last_search_reset of p is set and its date is not the current date
PreviousDay(p) ==
  /\ p # NoProfile
  /\ p.last_search_reset # NoDate
  /\ p.last_search_reset[1] # today

\* last_search_reset of p is unset
Unset(p) == p # NoProfile /\ p.last_search_reset = NoDate

\* C9, as stated: every load of a profile whose last_search_reset date is
\* not the current date - the same stale value as before and an unset value
\* included - invokes reset_daily_searches, and a successful reset is
\* followed by a fetch of the profile.
C9_Step ==
  /\ (lastEvent' = "data" /\ (PreviousDay(profile') \/ Unset(profile')))
        => ResetInvocations(1)
  /\ \A k \in RpcKeys :
       (Succeeded(k) /\ k.proc = "reset_daily_searches"
          /\ k.profileId # NoUser) => FetchStarted(k.profileId)

C9_AmendedStep ==
  /\ lastEvent' = "data" =>
       IF /\ user # NoUser
          /\ PreviousDay(profile')
          /\ profile'.last_search_reset # Dependency(profile)
       THEN ResetInvocations(1)
       ELSE ResetInvocations(0)
  /\ \A k \in RpcKeys :
       (Succeeded(k) /\ k.proc = "reset_daily_searches"
          /\ k.profileId # NoUser) => FetchStarted(k.profileId)

C10_Step ==
  /\ (lastEvent' = "data" /\ profile' # profile /\ PreviousDay(profile'))
        => ResetInvocations(1)
  /\ (Dependency(profile') = Dependency(profile) /\ events' = events)
        => ResetInvocations(0)

C10_ExactlyOncePerStaleLoad == [][C10_Step]_vars

\* the step is the response of call k, whatever its outcome
Responded(k) ==
  /\ rpcs[k] > 0
  /\ rpcs' = BagRemove(rpcs, k)

\* the step started exactly one fetch of a profile
OneFetchStarted == \E u \in Users : FetchStarted(u)

\* C11: a remote procedure that returns success is always followed by a fetch
\* of the profile, also when the call was made while no profile was held; one
\* that returns an error or throws starts no fetch and no further call and
\* leaves the held profile unchanged.
C11_Step ==
  \A k \in RpcKeys :
    /\ Succeeded(k) => OneFetchStarted
    /\ (Responded(k) /\ lastEvent' # "ok")
          => /\ fetches' = fetches
             /\ profile' = profile
             /\ loading' = loading

C11_RefetchAfterSuccess == [][C11_Step]_vars

\* C12: whenever there is no identity, the held profile is empty and the
\* derived values reflect no access (hasPlanAccess false, canSearch false,
\* searchLimit 0), also when the identity was removed while a profile fetch
\* was in flight and its response arrived afterwards.
C12_NoIdentityNoProfile ==
  user = NoUser =>
     /\ profile = NoProfile
     /\ ~hasPlanAccess
     /\ ~canSearch
     /\ searchLimit = 0

\* C13: loading is true in every state in which a profile fetch is in
\* flight, overlapping fetches included, and false once every started fetch
\* has completed.
C13_LoadingWhileInFlight ==
  /\ InFlight(fetches) > 0 => loading
  /\ InFlight(fetches) = 0 => ~loading

\* the step is the response of a profile fetch for u
FetchResponded(u) ==
  /\ fetches[u] > 0
  /\ fetches' = BagRemove(fetches, u)

\* C14: overlapping profile fetches are not fenced: a response that carries a
\* row makes that row the held profile whatever the identity is by then, so
\* after the fetches for A and B have both completed the held profile is the
\* row of the response that arrived last and can be A's while the identity is
\* B; a fetch leaves flight only by its own response, never by an identity
\* change.
C14_Step ==
  /\ \A u \in Users :
       (FetchResponded(u) /\ lastEvent' = "data") => profile' = server[u]
  /\ (\E u \in Users : fetches'[u] < fetches[u])
        => /\ lastEvent' \in {"data", "failed"}
           /\ user' = user
  /\ user' # user => \A u \in Users : fetches'[u] >= fetches[u]

C14_LastResponseWins == [][C14_Step]_vars

C14_Witness ==
  /\ user = "B"
  /\ profile = server["A"]
  /\ InFlight(fetches) = 0
  /\ lastEvent = "data"
  /\ rpcs[[proc |-> "reset_daily_searches", user |-> "B",
           profileId |-> "B"]] = 1

\* C15: a profile fetch that fails (error result, exception or no data)
\* leaves the held profile exactly as it was, unset or stale, and leaves
\* dailyLimits unchanged; only the loading flag changes.
C15_Step ==
  \A u \in Users :
    (FetchResponded(u) /\ lastEvent' = "failed")
       => /\ profile' = profile
          /\ dailyLimits' = dailyLimits
          /\ loading' = FALSE
          /\ user' = user
          /\ rpcs' = rpcs
          /\ server' = server
          /\ limitsFetch' = limitsFetch

C15_FailedFetchKeepsProfile == [][C15_Step]_vars

C15_Witness ==
  /\ lastEvent = "failed"
  /\ profile # NoProfile
  /\ profile # server[profile.id]
  /\ ~loading
  /\ dailyLimits # NoLimits

(***************************************************************************)
(* UserProvider mounted against a feature_gates row in which each of the   *)
(* three categories is present or missing (undefined or null), in all      *)
(* eight combinations.                                                     *)
(***************************************************************************)
InitLimits ==
  /\ Mounted
  /\ StoreUntouched
  /\ \E s \in {Missing, CustomSearchLimits},
        w \in {Missing, CustomWatchTimeLimits},
        f \in {Missing, CustomFavoriteLimits} :
       setting_value = SettingValue(s, w, f)
  /\ server = [u \in Users |->
                 IF u = "A"
                 THEN Row("A", "freebird", "active", 7, <<2, 0>>)
                 ELSE Row("B", "hero", "active", 0, <<1, 0>>)]

SpecLimits == InitLimits /\ [][NextUser]_vars

\* C16: when the settings fetch succeeds with a setting_value, each of the
\* three categories is resolved on its own: a category present in the remote
\* value is used as it is, a missing one takes its own documented default,
\* whatever the other two categories are.
C16_PerCategoryResolution ==
  (limitsFetch = "row" /\ setting_value # NoValue) =>
     /\ dailyLimits # NoLimits
     /\ dailyLimits.daily_search_limits =
          IF setting_value.daily_search_limits = Missing
          THEN DocumentedDefaults.daily_search_limits
          ELSE setting_value.daily_search_limits
     /\ dailyLimits.daily_watch_time_limits =
          IF setting_value.daily_watch_time_limits = Missing
          THEN DocumentedDefaults.daily_watch_time_limits
          ELSE setting_value.daily_watch_time_limits
     /\ dailyLimits.favorite_limits =
          IF setting_value.favorite_limits = Missing
          THEN DocumentedDefaults.favorite_limits
          ELSE setting_value.favorite_limits

C16_Witness ==
  /\ limitsFetch = "row"
  /\ setting_value.daily_search_limits = Missing
  /\ setting_value.daily_watch_time_limits = CustomWatchTimeLimits
  /\ setting_value.favorite_limits = Missing
  /\ dailyLimits.daily_watch_time_limits = CustomWatchTimeLimits
  /\ dailyLimits.favorite_limits["hero"] = -1
  /\ profile # NoProfile
  /\ getDailySearchLimit = 8

(***************************************************************************)
(* The script is run, against an empty store, with other caption lists     *)
(* than the built-in one: up to MaxCaptions captions whose chord names and *)
(* fret positions may contain the hyphen that joins the composite key.     *)
(***************************************************************************)
MaxCaptions == 2     \* captions in the list

S_Cm7 == <<"C", "-", "7">>
S_P_1 == <<"P", "-", "1">>

CaptionChoices ==
  {Caption(n, f) : n \in {S_C, S_Cm7}, f \in {S_Open, S_P_1}}

RECURSIVE CaptionLists(_)
CaptionLists(n) ==
  IF n = 0 THEN {<<>>}
  ELSE LET shorter == CaptionLists(n - 1)
       IN  shorter \cup {Append(l, c) : l \in {s \in shorter : Len(s) = n - 1},
                                        c \in CaptionChoices}

InitAnyCaptions ==
  /\ chordCaptionData \in CaptionLists(MaxCaptions)
  /\ chord_variations = {}
  /\ chord_positions = {}
  /\ nextId = 1
  /\ RunIdle
  /\ UserUnmounted

SpecAnyCaptions == InitAnyCaptions /\ [][NextMigrate]_vars

\* C17: for every caption list, chord names or fret positions with a hyphen
\* included, every chord_positions row has chord_position_full_name equal to
\* its own chord_name, a hyphen and its own fret_position, and its
\* (chord_name, fret_position) pair is a pair of the caption list.
C17_FullNameOfCaptionPair ==
  \A p \in chord_positions :
    /\ p.chord_position_full_name =
         p.chord_name \o <<"-">> \o p.fret_position
    /\ <<p.chord_name, p.fret_position>> \in CaptionPairs

\* C18: the derived access flags of a held profile are consistent: whenever
\* canSearch is true, hasPlanAccess is true and planType is not 'freebird',
\* also for a profile whose subscription_tier is unset while its
\* subscription_status is 'active'.
C18_AccessFlagsConsistent ==
  (profile # NoProfile /\ canSearch) =>
     /\ hasPlanAccess
     /\ planType # "freebird"

\* C19: no remote procedure is invoked without an identity: every step that
\* invokes increment_search_usage or reset_daily_searches is taken while
\* user.id is set, and the call is made for that identity.
C19_Step ==
  \A k \in RpcKeys :
    rpcs'[k] > rpcs[k] =>
       /\ user # NoUser
       /\ user' = user
       /\ k.user = user

C19_NoCallWithoutIdentity == [][C19_Step]_vars

C19_Witness ==
  /\ user = NoUser
  /\ lastEvent = "data"
  /\ PreviousDay(profile)
  /\ rpcs[[proc |-> "increment_search_usage", user |-> profile.id,
           profileId |-> NoUser]] = 1
  /\ InFlight(rpcs) = 1

====
